---- MODULE Spec2Model ----
(***************************************************************************)
(* hola-proxy entry point (src/main.go): parse_args, run and main, with    *)
(* the collaborators run() wires together (NewResolver, CredService,       *)
(* get_endpoint, NewProxyDialer, NewProxyHandler, http.ListenAndServe),    *)
(* the credential rotation task CredService starts and the proxy sessions  *)
(* the HTTP server spawns.                                                 *)
(***************************************************************************)
EXTENDS Integers, Sequences, FiniteSets, TLC

VARIABLES
    pc,          \* position of the main goroutine inside run()/main()
    flags,       \* the command line as given by the user
    args,        \* CLIArgs filled by parse_args
    retval,      \* value of the return statement run() has reached
    exitCode,    \* the code the process exited with (None while running)
    modesRun,    \* the run modes that were executed
    netOps,      \* number of network operations started
    trace,       \* calls made by run() in proxy mode, in order
    errors,      \* the error categories run() has met
    resolver,    \* value returned by NewResolver
    auth,        \* live credentials handle returned by CredService
    tunnels,     \* endpoint set returned by CredService
    getepArgs,   \* arguments handed to get_endpoint
    endpoint,    \* endpoint returned by get_endpoint
    dialer,      \* value returned by NewProxyDialer
    handler,     \* value returned by NewProxyHandler
    logCreated,  \* NewLogWriter was called
    logCloses,   \* number of logWriter.Close() calls
    lateWrites,  \* log messages written after a Close
    store,       \* the credentials behind the live handle
    mutex,       \* owner of the lock guarding store
    rot,         \* the rotation task
    sess         \* the proxy sessions

vars == <<pc, flags, args, retval, exitCode, modesRun, netOps, trace, errors,
          resolver, auth, tunnels, getepArgs, endpoint, dialer, handler,
          logCreated, logCloses, lateWrites, store, mutex, rot, sess>>

\* a nil pointer / interface value
None == [nil |-> TRUE]
\* run() has not reached a return statement / the process has not exited
NoCode == 0 - 1

\* ------------------------------------------------------------------ bounds
MaxRotations == 2
NumSessions == 2

Sessions == 1..NumSessions

\* -timeout values tried, in seconds (the default is 10)
Timeouts == {5, 10, 60}
Countries == {"us", ""}
ProxyTypes == {"direct", "peer", ""}
PortFields == {"", "24232"}

\* ------------------------------------------------------- program constants
ArgFailExitCode == 2
ResolverExitCode == 6
\* the discovery failure reusing the resolver failure's code
CredExitCodeReused == ResolverExitCode
CredExitCode == 4
EndpointExitCode == 5
ServeExitCode == 0
DialerTimeout == 30

\* exit codes print_countries / print_proxies may return
ListReturnCodes == {0, 3}

\* ------------------------------------------------------------ command line
\* every flag set the user may pass (flag.Parse fills the rest with defaults)
FlagSets ==
    [version : BOOLEAN, list_countries : BOOLEAN, list_proxies : BOOLEAN,
     dont_use_trial : BOOLEAN, timeout : Timeouts, country : Countries,
     proxy_type : ProxyTypes, force_port_field : PortFields]

\* var args CLIArgs: the zero value
ZeroArgs ==
    [country |-> "", list_countries |-> FALSE, list_proxies |-> FALSE,
     use_trial |-> FALSE, timeout |-> 0, proxy_type |-> "",
     force_port_field |-> "", showVersion |-> FALSE]

\* the flag.*Var bindings of parse_args: which flag lands in which field
BindFlags(f) ==
    [country |-> f.country, list_countries |-> f.list_countries,
     list_proxies |-> f.list_proxies, use_trial |-> f.dont_use_trial,
     timeout |-> f.timeout, proxy_type |-> f.proxy_type,
     force_port_field |-> f.force_port_field, showVersion |-> f.version]

\* the three arg_fail checks of parse_args
ArgsInvalid(a) ==
    \/ a.country = ""
    \/ a.proxy_type = ""
    \/ (a.list_countries /\ a.list_proxies)

\* the list modes checked ahead of -version
ModeOfListFirst(a) ==
    IF a.list_countries THEN "countries"
    ELSE IF a.list_proxies THEN "proxies"
    ELSE IF a.showVersion THEN "version"
    ELSE "proxy"

\* the mode checks at the head of run(), in the order the code makes them
ModeOf(a) ==
    IF a.showVersion THEN "version"
    ELSE IF a.list_countries THEN "countries"
    ELSE IF a.list_proxies THEN "proxies"
    ELSE "proxy"

\* a logger writes n messages through logWriter
Logged(n) == IF logCloses > 0 THEN lateWrites + n ELSE lateWrites

\* ----------------------------------------------------------------- endpoints
E1 == [netAddr |-> "203.0.113.1:22222", tlsName |-> "zagent1.hola.org",
       class |-> "direct", trial |-> FALSE, portField |-> "22222"]
E2 == [netAddr |-> "203.0.113.1:22224", tlsName |-> "zagent1.hola.org",
       class |-> "direct", trial |-> TRUE, portField |-> "22224"]
E3 == [netAddr |-> "203.0.113.7:24232", tlsName |-> "zagent7.hola.org",
       class |-> "peer", trial |-> FALSE, portField |-> "24232"]
E4 == [netAddr |-> "203.0.113.9:22222", tlsName |-> "zagent9.hola.org",
       class |-> "direct", trial |-> FALSE, portField |-> "22222"]

\* endpoint sets a discovery round-trip may return, in discovery order
TunnelSets == {<<E1, E2, E3>>, <<E2, E4>>, <<E4, E1>>, <<E3>>}

NoEndpoint == [netAddr |-> "", tlsName |-> "", class |-> "", trial |-> FALSE,
               portField |-> ""]

\* Endpoint.NetAddr(): the host:port the tunnel is dialed at
NetAddr(e) == e.netAddr

\* indexes of the endpoints of set ts that satisfy the selection policy
Matching(ts, typ, trial, force) ==
    {i \in 1..Len(ts) :
        IF force # "" THEN ts[i].portField = force
        ELSE ts[i].class = typ /\ ts[i].trial = trial}

Min(S) == CHOOSE x \in S : \A y \in S : x <= y

\* get_endpoint: the first match in discovery order, or an error
get_endpoint(ts, typ, trial, force) ==
    LET m == Matching(ts, typ, trial, force)
    IN IF m = {} THEN [endpoint |-> NoEndpoint, err |-> TRUE]
       ELSE [endpoint |-> ts[Min(m)], err |-> FALSE]

\* ---------------------------------------------------------------- credentials
\* the complete credentials of identity generation g
Creds(g) == [user |-> g, pass |-> g]
NoCreds == Creds(0)

\* the handle CredService returns: a reference to the one credentials store
AuthHandle == [nil |-> FALSE, ref |-> "store"]

\* the lock guarding the store: the set of tasks inside it
RotTask == <<"rot", 0>>
SessTask(s) == <<"sess", s>>
\* a lock that never makes a task wait
MutexFreeUnguarded == TRUE
MutexFree == mutex = {}

Init ==
    /\ pc = "start"
    /\ flags \in FlagSets
    /\ args = ZeroArgs
    /\ retval = NoCode
    /\ exitCode = NoCode
    /\ modesRun = {}
    /\ netOps = 0
    /\ trace = <<>>
    /\ errors = {}
    /\ resolver = None
    /\ auth = None
    /\ tunnels = <<>>
    /\ getepArgs = None
    /\ endpoint = NoEndpoint
    /\ dialer = None
    /\ handler = None
    /\ logCreated = FALSE
    /\ logCloses = 0
    /\ lateWrites = 0
    /\ store = NoCreds
    /\ mutex = {}
    /\ rot = [pc |-> "off", gen |-> 0, done |-> 0]
    /\ sess = [s \in Sessions |-> [pc |-> "idle", user |-> 0, pass |-> 0,
                                   addr |-> "", tls |-> ""]]

procVars == <<store, mutex, rot, sess>>
wireVars == <<resolver, auth, tunnels, getepArgs, endpoint, dialer, handler>>
logVars == <<logCreated, logCloses, lateWrites>>

\* the process is alive: os.Exit has not been called
Alive == exitCode = NoCode

\* ------------------------------------------------------------------ run()
\* parse_args, arg_fail included: os.Exit(2) on an invalid combination
ParseArgs ==
    /\ pc = "start"
    /\ args' = BindFlags(flags)
    /\ IF ArgsInvalid(BindFlags(flags))
       THEN /\ exitCode' = ArgFailExitCode
            /\ pc' = "exited"
       ELSE /\ exitCode' = exitCode
            /\ pc' = "mode"
    /\ UNCHANGED <<flags, retval, modesRun, netOps, trace, errors>>
    /\ UNCHANGED <<wireVars, logVars, procVars>>

\* if args.showVersion { fmt.Println(version); return 0 }
ShowVersion ==
    /\ pc = "mode"
    /\ ModeOf(args) = "version"
    /\ modesRun' = modesRun \cup {"version"}
    /\ retval' = 0
    /\ pc' = "ret"
    /\ UNCHANGED <<flags, args, exitCode, netOps, trace, errors>>
    /\ UNCHANGED <<wireVars, logVars, procVars>>

\* return print_countries(args.timeout)
ListCountries ==
    /\ pc = "mode"
    /\ ModeOf(args) = "countries"
    /\ modesRun' = modesRun \cup {"countries"}
    /\ netOps' = netOps + 1
    /\ retval' \in ListReturnCodes
    /\ pc' = "ret"
    /\ UNCHANGED <<flags, args, exitCode, trace, errors>>
    /\ UNCHANGED <<wireVars, logVars, procVars>>

\* return print_proxies(args.country, args.proxy_type, args.limit, args.timeout)
ListProxies ==
    /\ pc = "mode"
    /\ ModeOf(args) = "proxies"
    /\ modesRun' = modesRun \cup {"proxies"}
    /\ netOps' = netOps + 1
    /\ retval' \in ListReturnCodes
    /\ pc' = "ret"
    /\ UNCHANGED <<flags, args, exitCode, trace, errors>>
    /\ UNCHANGED <<wireVars, logVars, procVars>>

\* NewLogWriter, defer logWriter.Close(), the three loggers, two Info lines
StartProxyMode ==
    /\ pc = "mode"
    /\ ModeOf(args) = "proxy"
    /\ modesRun' = modesRun \cup {"proxy"}
    /\ logCreated' = TRUE
    /\ lateWrites' = Logged(2)
    /\ pc' = "resolver"
    /\ UNCHANGED <<flags, args, retval, exitCode, netOps, trace, errors>>
    /\ UNCHANGED <<wireVars, logCloses, procVars>>

\* run() going from the resolver straight to endpoint selection
AfterNewResolverSkipsDiscovery(err) == IF err THEN "ret" ELSE "getep"

\* where run() goes after NewResolver returned
AfterNewResolver(err) == IF err THEN "ret" ELSE "cred"

\* resolver, err := NewResolver(args.resolver, args.timeout)
CallNewResolver ==
    /\ pc = "resolver"
    /\ trace' = Append(trace, "NewResolver")
    /\ \E err \in BOOLEAN :
        /\ pc' = AfterNewResolver(err)
        /\ lateWrites' = Logged(1)
        /\ IF err
           THEN /\ resolver' = None
                /\ errors' = errors \cup {"resolver"}
                /\ retval' = ResolverExitCode
           ELSE /\ resolver' = [nil |-> FALSE, timeout |-> args.timeout]
                /\ UNCHANGED <<errors, retval>>
    /\ UNCHANGED <<flags, args, exitCode, modesRun, netOps>>
    /\ UNCHANGED <<auth, tunnels, getepArgs, endpoint, dialer, handler>>
    /\ UNCHANGED <<logCreated, logCloses, procVars>>

\* run() ignoring the error CredService returned
AfterCredServiceUnchecked(err) == "getep"

\* where run() goes after CredService returned
AfterCredService(err) == IF err THEN "ret" ELSE "getep"

\* auth, tunnels, err := CredService(args.rotate, args.timeout, ...)
CallCredService ==
    /\ pc = "cred"
    /\ trace' = Append(trace, "CredService")
    /\ netOps' = netOps + 1
    /\ \E err \in BOOLEAN :
        /\ pc' = AfterCredService(err)
        /\ IF err
           THEN /\ auth' = None
                /\ tunnels' = <<>>
                /\ errors' = errors \cup {"discovery"}
                /\ UNCHANGED <<store, rot>>
                /\ lateWrites' = Logged(1)
                /\ logCloses' = logCloses + 1
                /\ retval' = CredExitCode
           ELSE /\ auth' = AuthHandle
                /\ tunnels' \in TunnelSets
                /\ errors' = errors
                /\ store' = Creds(1)
                /\ rot' = [pc |-> "idle", gen |-> 1, done |-> 0]
                /\ UNCHANGED <<lateWrites, logCloses, retval>>
    /\ UNCHANGED <<flags, args, exitCode, modesRun>>
    /\ UNCHANGED <<resolver, getepArgs, endpoint, dialer, handler>>
    /\ UNCHANGED <<logCreated, mutex, sess>>

\* the fourth..second arguments run() hands to get_endpoint
SelectorArgs(a, ts) ==
    [tunnels |-> ts, typ |-> a.proxy_type, trial |-> a.use_trial,
     force |-> a.force_port_field]

\* endpoint, err := get_endpoint(tunnels, args.proxy_type, args.use_trial, ...)
CallGetEndpoint ==
    /\ pc = "getep"
    /\ trace' = Append(trace, "get_endpoint")
    /\ getepArgs' = SelectorArgs(args, tunnels)
    /\ LET g == SelectorArgs(args, tunnels)
           r == get_endpoint(g.tunnels, g.typ, g.trial, g.force)
       IN /\ endpoint' = r.endpoint
          /\ IF r.err
             THEN /\ errors' = errors \cup {"selection"}
                  /\ lateWrites' = Logged(1)
                  /\ logCloses' = logCloses + 1
                  /\ retval' = EndpointExitCode
                  /\ pc' = "ret"
             ELSE /\ pc' = "dialer"
                  /\ UNCHANGED <<errors, lateWrites, logCloses, retval>>
    /\ UNCHANGED <<flags, args, exitCode, modesRun, netOps>>
    /\ UNCHANGED <<resolver, auth, tunnels, dialer, handler>>
    /\ UNCHANGED <<logCreated, procVars>>

\* the dialer validating the certificate against the dialed address
NewProxyDialerDialedName(e, au) ==
    [nil |-> FALSE, address |-> NetAddr(e), tlsName |-> NetAddr(e),
     auth |-> au, timeout |-> DialerTimeout]

\* NewProxyDialer(endpoint.NetAddr(), endpoint.TLSName, auth, &net.Dialer{...})
NewProxyDialer(e, au) ==
    [nil |-> FALSE, address |-> NetAddr(e), tlsName |-> e.tlsName,
     auth |-> au, timeout |-> DialerTimeout]

\* var dialer ContextDialer = NewProxyDialer(...); two Info lines
BuildDialer ==
    /\ pc = "dialer"
    /\ trace' = Append(trace, "NewProxyDialer")
    /\ dialer' = NewProxyDialer(endpoint, auth)
    /\ lateWrites' = Logged(2)
    /\ pc' = "handler"
    /\ UNCHANGED <<flags, args, retval, exitCode, modesRun, netOps, errors>>
    /\ UNCHANGED <<resolver, auth, tunnels, getepArgs, endpoint, handler>>
    /\ UNCHANGED <<logCreated, logCloses, procVars>>

\* NewProxyHandler(dialer, resolver, proxyLogger)
NewProxyHandler(d, r) == [nil |-> FALSE, dialer |-> d, resolver |-> r]

\* handler := NewProxyHandler(...); "Init complete."
BuildHandler ==
    /\ pc = "handler"
    /\ trace' = Append(trace, "NewProxyHandler")
    /\ handler' = NewProxyHandler(dialer, resolver)
    /\ lateWrites' = Logged(1)
    /\ pc' = "listen"
    /\ UNCHANGED <<flags, args, retval, exitCode, modesRun, netOps, errors>>
    /\ UNCHANGED <<resolver, auth, tunnels, getepArgs, endpoint, dialer>>
    /\ UNCHANGED <<logCreated, logCloses, procVars>>

\* err = http.ListenAndServe(args.bind_address, handler): the bind fails and
\* the call returns at once, or the server starts accepting connections
ListenAndServe ==
    /\ pc = "listen"
    /\ trace' = Append(trace, "ListenAndServe")
    /\ netOps' = netOps + 1
    /\ \E bound \in BOOLEAN :
        IF bound
        THEN /\ pc' = "serving"
             /\ errors' = errors
        ELSE /\ pc' = "terminated"
             /\ errors' = errors \cup {"bind"}
    /\ UNCHANGED <<flags, args, retval, exitCode, modesRun>>
    /\ UNCHANGED <<wireVars, logVars, procVars>>

\* the accept loop of the running server fails: ListenAndServe returns
ServerFails ==
    /\ pc = "serving"
    /\ errors' = errors \cup {"serve"}
    /\ pc' = "terminated"
    /\ UNCHANGED <<flags, args, retval, exitCode, modesRun, netOps, trace>>
    /\ UNCHANGED <<wireVars, logVars, procVars>>

\* "Server terminated with a reason", "Shutting down...", return 0
ServerTerminated ==
    /\ pc = "terminated"
    /\ lateWrites' = Logged(2)
    /\ retval' = ServeExitCode
    /\ pc' = "ret"
    /\ UNCHANGED <<flags, args, exitCode, modesRun, netOps, trace, errors>>
    /\ UNCHANGED <<wireVars, logCreated, logCloses, procVars>>

\* run() returns: the deferred logWriter.Close() runs
Return ==
    /\ pc = "ret"
    /\ logCloses' = IF logCreated THEN logCloses + 1 ELSE logCloses
    /\ pc' = "returned"
    /\ UNCHANGED <<flags, args, retval, exitCode, modesRun, netOps, trace,
                   errors>>
    /\ UNCHANGED <<wireVars, logCreated, lateWrites, procVars>>

\* main: os.Exit(run())
Exit ==
    /\ pc = "returned"
    /\ exitCode' = retval
    /\ pc' = "exited"
    /\ UNCHANGED <<flags, args, retval, modesRun, netOps, trace, errors>>
    /\ UNCHANGED <<wireVars, logVars, procVars>>

\* ------------------------------------------- rotation task of CredService
\* the ticker fires: re-authenticate with a fresh identity; a failure is
\* logged and leaves the credentials as they are
RotateBegin ==
    /\ Alive
    /\ rot.pc = "idle"
    /\ rot.done < MaxRotations
    /\ \E ok \in BOOLEAN :
        IF ok
        THEN /\ rot' = [rot EXCEPT !.pc = "ready", !.gen = rot.gen + 1]
             /\ lateWrites' = lateWrites
        ELSE /\ rot' = [rot EXCEPT !.done = rot.done + 1]
             /\ lateWrites' = Logged(1)
    /\ UNCHANGED <<pc, flags, args, retval, exitCode, modesRun, netOps, trace,
                   errors>>
    /\ UNCHANGED <<wireVars, logCreated, logCloses, store, mutex, sess>>

RotateLock ==
    /\ Alive
    /\ rot.pc = "ready"
    /\ MutexFree
    /\ mutex' = mutex \cup {RotTask}
    /\ rot' = [rot EXCEPT !.pc = "locked"]
    /\ UNCHANGED <<pc, flags, args, retval, exitCode, modesRun, netOps, trace,
                   errors>>
    /\ UNCHANGED <<wireVars, logVars, store, sess>>

RotateWriteUser ==
    /\ Alive
    /\ rot.pc = "locked"
    /\ store' = [store EXCEPT !.user = rot.gen]
    /\ rot' = [rot EXCEPT !.pc = "half"]
    /\ UNCHANGED <<pc, flags, args, retval, exitCode, modesRun, netOps, trace,
                   errors>>
    /\ UNCHANGED <<wireVars, logVars, mutex, sess>>

RotateWritePass ==
    /\ Alive
    /\ rot.pc = "half"
    /\ store' = [store EXCEPT !.pass = rot.gen]
    /\ mutex' = mutex \ {RotTask}
    /\ rot' = [rot EXCEPT !.pc = "idle", !.done = rot.done + 1]
    /\ UNCHANGED <<pc, flags, args, retval, exitCode, modesRun, netOps, trace,
                   errors>>
    /\ UNCHANGED <<wireVars, logVars, sess>>

\* --------------------------------------------------------- proxy sessions
\* the server accepts a client connection; the handler dials the tunnel
\* endpoint its dialer is bound to
SessAccept(s) ==
    /\ Alive
    /\ pc = "serving"
    /\ sess[s].pc = "idle"
    /\ sess' = [sess EXCEPT ![s].pc = "dialing",
                            ![s].addr = handler.dialer.address,
                            ![s].tls = handler.dialer.tlsName]
    /\ UNCHANGED <<pc, flags, args, retval, exitCode, modesRun, netOps, trace,
                   errors>>
    /\ UNCHANGED <<wireVars, logVars, store, mutex, rot>>

\* the dialer reads the credentials through the live handle
SessLock(s) ==
    /\ Alive
    /\ sess[s].pc = "dialing"
    /\ MutexFree
    /\ mutex' = mutex \cup {SessTask(s)}
    /\ sess' = [sess EXCEPT ![s].pc = "locked"]
    /\ UNCHANGED <<pc, flags, args, retval, exitCode, modesRun, netOps, trace,
                   errors>>
    /\ UNCHANGED <<wireVars, logVars, store, rot>>

SessReadUser(s) ==
    /\ Alive
    /\ sess[s].pc = "locked"
    /\ sess' = [sess EXCEPT ![s].pc = "half", ![s].user = store.user]
    /\ UNCHANGED <<pc, flags, args, retval, exitCode, modesRun, netOps, trace,
                   errors>>
    /\ UNCHANGED <<wireVars, logVars, store, mutex, rot>>

SessReadPass(s) ==
    /\ Alive
    /\ sess[s].pc = "half"
    /\ sess' = [sess EXCEPT ![s].pc = "done", ![s].pass = store.pass]
    /\ mutex' = mutex \ {SessTask(s)}
    /\ UNCHANGED <<pc, flags, args, retval, exitCode, modesRun, netOps, trace,
                   errors>>
    /\ UNCHANGED <<wireVars, logVars, store, rot>>

Next ==
    \/ ParseArgs
    \/ ShowVersion
    \/ ListCountries
    \/ ListProxies
    \/ StartProxyMode
    \/ CallNewResolver
    \/ CallCredService
    \/ CallGetEndpoint
    \/ BuildDialer
    \/ BuildHandler
    \/ ListenAndServe
    \/ ServerFails
    \/ ServerTerminated
    \/ Return
    \/ Exit
    \/ RotateBegin
    \/ RotateLock
    \/ RotateWriteUser
    \/ RotateWritePass
    \/ \E s \in Sessions : SessAccept(s)
    \/ \E s \in Sessions : SessLock(s)
    \/ \E s \in Sessions : SessReadUser(s)
    \/ \E s \in Sessions : SessReadPass(s)

Spec == Init /\ [][Next]_vars

\* ----------------------------------------------------------------- claims
Calls(name) == Cardinality({i \in 1..Len(trace) : trace[i] = name})
Returned == pc \in {"returned", "exited"}

\* C1: when CredService returns an error, run() returns a non-zero code and on
\* that path get_endpoint is never called, no dialer and no handler is built
\* and the HTTP server is never started.
C1_DiscoveryFailureAborts ==
    "discovery" \in errors =>
        /\ Calls("get_endpoint") = 0
        /\ Calls("NewProxyDialer") = 0
        /\ Calls("NewProxyHandler") = 0
        /\ Calls("ListenAndServe") = 0
        /\ getepArgs = None /\ dialer = None /\ handler = None
        /\ retval # 0 /\ retval # NoCode
        /\ (pc = "exited" => exitCode # 0)

C1_Witness == "discovery" \in errors /\ pc = "exited"

\* the code run() returns for a startup failure category
ExitCodeOf(c) ==
    CASE c = "resolver" -> ResolverExitCode
      [] c = "discovery" -> CredExitCode
      [] c = "selection" -> EndpointExitCode

StartupFailures == {"resolver", "discovery", "selection"}

\* C2: the exit code of a run that hit a startup failure category is not zero,
\* is not the argument-validation code and is not the code of any other
\* category.
C2_DistinctExitCodes ==
    \A c \in StartupFailures :
        (pc = "exited" /\ c \in errors) =>
            /\ exitCode = ExitCodeOf(c)
            /\ exitCode # 0
            /\ exitCode # ArgFailExitCode
            /\ \A d \in StartupFailures \ {c} : exitCode # ExitCodeOf(d)

C2_Witness == pc = "exited" /\ "selection" \in errors

\* C3: every error that aborts run(), a failure of the local HTTP server to
\* bind or serve included, makes the process exit with a non-zero code.
C3_ErrorsExitNonZero ==
    (pc = "exited" /\ errors # {}) => exitCode # 0

\* C4: the trial argument handed to get_endpoint is the negation of the
\* -dont-use-trial flag.
C4_TrialArgNegatesFlag ==
    getepArgs # None => (getepArgs.trial = ~flags.dont_use_trial)

\* C5: the timeout given to the dialer built in run() equals or is bounded by
\* the configured -timeout value, as the resolver's is.
C5_DialerTimeoutFromConfig ==
    /\ resolver # None => resolver.timeout = flags.timeout
    /\ dialer # None => dialer.timeout <= flags.timeout

\* C6: in proxy mode one dialer is built, bound to the network address of the
\* endpoint get_endpoint returned, to that endpoint's TLS server name (not the
\* dialed address) and to the live handle CredService returned; the one
\* handler is built over that dialer and the one resolver.
C6_OneDialerBoundToEndpoint ==
    /\ Calls("NewProxyDialer") <= 1
    /\ Calls("NewProxyHandler") <= 1
    /\ Calls("NewResolver") <= 1
    /\ dialer # None =>
        /\ Calls("NewProxyDialer") = 1
        /\ getepArgs # None
        /\ endpoint = get_endpoint(getepArgs.tunnels, getepArgs.typ,
                                   getepArgs.trial, getepArgs.force).endpoint
        /\ dialer.address = endpoint.netAddr
        /\ dialer.tlsName = endpoint.tlsName
        /\ dialer.tlsName # dialer.address
        /\ dialer.auth = auth
        /\ auth = AuthHandle
    /\ handler # None =>
        /\ Calls("NewProxyHandler") = 1
        /\ dialer # None /\ resolver # None
        /\ handler.dialer = dialer
        /\ handler.resolver = resolver
    /\ pc = "serving" => handler # None

C6_Witness ==
    /\ pc = "serving"
    /\ handler.dialer.address = E4.netAddr
    /\ handler.dialer.tlsName = E4.tlsName

ProxyOrder ==
    <<"NewResolver", "CredService", "get_endpoint", "NewProxyDialer",
      "NewProxyHandler", "ListenAndServe">>

\* C7: the calls of a run are a prefix of the order NewResolver, CredService,
\* get_endpoint, NewProxyDialer, NewProxyHandler, ListenAndServe, each made at
\* most once; get_endpoint works on the set CredService returned; and every
\* session, before or after a rotation, dials the one selected endpoint.
C7_OnceInOrder ==
    /\ Len(trace) <= Len(ProxyOrder)
    /\ \A i \in 1..Len(trace) : trace[i] = ProxyOrder[i]
    /\ getepArgs # None => getepArgs.tunnels = tunnels
    /\ \A s \in Sessions :
        sess[s].pc # "idle" =>
            /\ trace = ProxyOrder
            /\ sess[s].addr = endpoint.netAddr
            /\ sess[s].tls = endpoint.tlsName

C7_Witness ==
    /\ trace = ProxyOrder
    /\ rot.done >= 1 /\ rot.gen >= 2
    /\ \E s \in Sessions : sess[s].pc = "done" /\ sess[s].user >= 2

\* C8: a read through the live handle that is concurrent with a rotation
\* returns the complete previous or the complete new credentials, never a
\* mixture.
C8_NoTornRead ==
    \A s \in Sessions :
        sess[s].pc = "done" =>
            /\ sess[s].user = sess[s].pass
            /\ sess[s].user \in 1..rot.gen

C8_Witness ==
    \E s \in Sessions :
        /\ sess[s].pc = "half"
        /\ rot.pc = "ready"
        /\ sess[s].user = rot.gen - 1

\* C9: the modes are tried in the order version, list-countries, list-proxies,
\* proxy and one mode runs; -version returns 0 with no network operation; the
\* version and list modes return without resolver, CredService, get_endpoint
\* or HTTP server.
C9_ModePriority ==
    /\ Cardinality(modesRun) <= 1
    /\ modesRun # {} =>
        modesRun = {IF flags.version THEN "version"
                    ELSE IF flags.list_countries THEN "countries"
                    ELSE IF flags.list_proxies THEN "proxies"
                    ELSE "proxy"}
    /\ pc \in {"ret", "returned", "exited"} /\ ~ArgsInvalid(args)
         => modesRun # {}
    /\ "version" \in modesRun =>
        /\ netOps = 0
        /\ retval = 0
        /\ (pc = "exited" => exitCode = 0)
    /\ modesRun \cap {"version", "countries", "proxies"} # {} =>
        /\ trace = <<>>
        /\ resolver = None /\ auth = None /\ handler = None
        /\ ~logCreated

C9_Witness ==
    /\ pc = "exited"
    /\ modesRun = {"version"}
    /\ flags.list_proxies

\* C10: on every path of run() that creates the log writer, Close is called on
\* it once before run() returns, and nothing is logged after that Close.
C10_LogClosedOnce ==
    (Returned /\ logCreated) => (logCloses = 1 /\ lateWrites = 0)

====
